---- MODULE Spec2Model ----
(***************************************************************************)
(* CNTK model scoring on Spark (CNTK_model_scoring_on_Spark_walkthrough).   *)
(*                                                                         *)
(* Two specifications over one set of variables:                           *)
(*   SpecImage  one record through reshape_image and                       *)
(*              get_preprocessed_image, on a model of numpy's arrays       *)
(*              (buffers, shapes, strides, views and copies);              *)
(*   Spec       the scoring run: one run_worker generator per partition,   *)
(*              collect(), the accuracy cell and the confusion matrix      *)
(*              cell.                                                      *)
(***************************************************************************)
EXTENDS Integers, Sequences, FiniteSets, TLC

\* ------------------------------------------------------------- bounds
\* reshape(3,32,32): the channel count is the program's, the two spatial
\* dimensions are scaled down.
Channels == 3
Height == 2
Width == 2
\* Largest pixel of a one-hot input buffer, largest entry of a one-hot mean.
MaxPixel == 2
MaxMean == 2
\* Partitions (one run_worker each), records in the dataset, and class
\* labels (0..9 in the notebook).
NumWorkers == 2
MaxRecords == 2
NumClasses == 2

\* ------------------------------------------------ numpy: small helpers
RECURSIVE Prod(_)
Prod(s) == IF s = <<>> THEN 1 ELSE s[1] * Prod(Tail(s))

\* Strides (in elements) of a C-ordered array of this shape.
CStrides(shape) ==
    [i \in 1..Len(shape) |-> Prod(SubSeq(shape, i + 1, Len(shape)))]

RECURSIVE Dot(_, _)
Dot(a, b) == IF a = <<>> THEN 0 ELSE a[1] * b[1] + Dot(Tail(a), Tail(b))

\* The index tuple at C-order position k (0-based) of a shape.
Unravel(shape, k) ==
    [i \in 1..Len(shape) |-> (k \div CStrides(shape)[i]) % shape[i]]

\* The index tuples (0-based) of a shape.
Indices(shape) == {Unravel(shape, k) : k \in 0..(Prod(shape) - 1)}

\* An ndarray is a view on a buffer of the heap: the heap is a sequence of
\* buffers, each a sequence of numbers.
NdArray(buf, shape, strides, offset, dtype) ==
    [buf |-> buf, shape |-> shape, strides |-> strides, offset |-> offset,
     dtype |-> dtype]

\* Position (1-based) in its buffer of the element at an index tuple.
Addr(a, ix) == a.offset + Dot(ix, a.strides) + 1

At(heap, a, ix) == heap[a.buf][Addr(a, ix)]

\* Position (1-based) in its buffer of each element of an array, the
\* elements taken in C order.
FlatAddr(a) ==
    LET cs == CStrides(a.shape)
    IN  [k \in 1..Prod(a.shape) |->
            a.offset + 1 +
            Dot([i \in 1..Len(a.shape) |-> ((k - 1) \div cs[i]) % a.shape[i]],
                a.strides)]

\* The elements of an array in C order.
Flat(heap, a) ==
    LET addr == FlatAddr(a)
    IN  [k \in 1..Prod(a.shape) |-> heap[a.buf][addr[k]]]

\* Conversion of a number to a dtype. Pixels, means and their differences
\* are integers here, which both float types hold exactly.
Cast(v, dtype) == IF dtype = "uint8" THEN v % 256 ELSE v

IsCContiguous(a) ==
    \A i \in 1..Len(a.shape) :
        a.shape[i] > 1 => a.strides[i] = CStrides(a.shape)[i]

\* A fresh C-ordered array holding a's elements converted to dtype.
CopyOf(heap, a, dtype) ==
    LET flat == Flat(heap, a)
    IN  [heap |-> Append(heap, [k \in 1..Prod(a.shape) |-> Cast(flat[k], dtype)]),
         arr |-> NdArray(Len(heap) + 1, a.shape, CStrides(a.shape), 0, dtype)]

\* ndarray.reshape of a C-contiguous array: a view of the same buffer.
reshape(a, shape) == NdArray(a.buf, shape, CStrides(shape), a.offset, a.dtype)

\* ndarray.transpose(axes), axes 0-based: a view with the axes permuted.
transpose(a, axes) ==
    NdArray(a.buf,
            [i \in 1..Len(axes) |-> a.shape[axes[i] + 1]],
            [i \in 1..Len(axes) |-> a.strides[axes[i] + 1]],
            a.offset, a.dtype)

\* a[:, :, ::-1]: a view with the last axis walked backwards.
FlipLast(a) ==
    LET n == Len(a.shape) IN
    NdArray(a.buf, a.shape,
            [a.strides EXCEPT ![n] = 0 - a.strides[n]],
            a.offset + (a.shape[n] - 1) * a.strides[n], a.dtype)

\* ndarray.astype(dtype): always a new array (copy=True is the default).
astype(heap, a, dtype) == CopyOf(heap, a, dtype)

\* np.ascontiguousarray: the array itself when it is C-contiguous already.
ascontiguousarray(heap, a) ==
    IF IsCContiguous(a) THEN [heap |-> heap, arr |-> a]
    ELSE CopyOf(heap, a, a.dtype)

\* buf with the elements at addr[k..] lowered by sub[k..], kept in dtype.
RECURSIVE SubtractFrom(_, _, _, _, _)
SubtractFrom(buf, addr, sub, dtype, k) ==
    IF k > Len(addr) THEN buf
    ELSE SubtractFrom([buf EXCEPT ![addr[k]] = Cast(@ - sub[k], dtype)],
                      addr, sub, dtype, k + 1)

\* a -= b (b of a's shape): writes a's elements in place, in a's dtype.
isub(heap, a, b) ==
    [heap EXCEPT ![a.buf] = SubtractFrom(@, FlatAddr(a), Flat(heap, b), a.dtype, 1)]

\* ------------------------------------------------------ the notebook's
\* functions on arrays

\* def reshape_image(record): a record is (image, label, filename).
reshape_imageNoTranspose(record) ==
    <<reshape(record[1], <<Height, Width, Channels>>), record[2], record[3]>>

reshape_image(record) ==
    <<transpose(reshape(record[1], <<Channels, Height, Width>>), <<1, 2, 0>>),
      record[2], record[3]>>

\* mean_image = np.array(mean_image).reshape((32, 32, 3)).transpose((2, 0, 1))
\* on the flat list of the XML file, held in buffer buf.
ParseMeanImage(buf) ==
    transpose(reshape(NdArray(buf, <<Height * Width * Channels>>, <<1>>, 0,
                              "float64"),
                      <<Height, Width, Channels>>), <<2, 0, 1>>)

\* def get_preprocessed_image(my_image, mean_image): the heap after the call
\* and the array returned.
get_preprocessed_imageNoFlip(heap, my_image, mean_image) ==
    LET a == astype(heap, my_image, "float32")
        c == ascontiguousarray(a.heap, transpose(a.arr, <<2, 0, 1>>))
    IN  [heap |-> isub(c.heap, c.arr, mean_image), arr |-> c.arr]

get_preprocessed_imageIntoMean(heap, my_image, mean_image) ==
    LET a == astype(heap, my_image, "float32")
        c == ascontiguousarray(a.heap, transpose(FlipLast(a.arr), <<2, 0, 1>>))
    IN  [heap |-> isub(c.heap, mean_image, c.arr), arr |-> mean_image]

get_preprocessed_image(heap, my_image, mean_image) ==
    LET a == astype(heap, my_image, "float32")
        bgr_image == FlipLast(a.arr)
        c == ascontiguousarray(a.heap, transpose(bgr_image, <<2, 0, 1>>))
    IN  [heap |-> isub(c.heap, c.arr, mean_image), arr |-> c.arr]

\* ------------------------------------------------- the scoring functions

\* np.argmax(np.squeeze(dnn_output)): the class (0-based) of the first
\* largest score.
argmax(v) ==
    (CHOOSE i \in 1..Len(v) :
        /\ \A j \in 1..Len(v) : v[j] <= v[i]
        /\ \A j \in 1..(i - 1) : v[j] < v[i]) - 1

\* sum(df['true_label'] == df['predicted_label'])
RECURSIVE NumCorrect(_)
NumCorrect(df) ==
    IF df = <<>> THEN 0
    ELSE (IF df[1][1] = df[1][2] THEN 1 ELSE 0) + NumCorrect(Tail(df))

Range(seq) == {seq[i] : i \in 1..Len(seq)}

\* Series.unique(): the values in order of first appearance.
RECURSIVE unique(_)
unique(seq) ==
    IF seq = <<>> THEN <<>>
    ELSE LET u == unique(SubSeq(seq, 1, Len(seq) - 1))
             x == seq[Len(seq)]
         IN  IF x \in Range(u) THEN u ELSE Append(u, x)

\* np.sort
RECURSIVE sort(_)
sort(seq) ==
    IF seq = <<>> THEN <<>>
    ELSE LET m == CHOOSE x \in Range(seq) : \A y \in Range(seq) : x <= y
             i == CHOOSE k \in 1..Len(seq) : seq[k] = m
         IN  <<m>> \o sort(SubSeq(seq, 1, i - 1) \o SubSeq(seq, i + 1, Len(seq)))

TrueLabels(df) == [i \in 1..Len(df) |-> df[i][1]]

\* labels = np.sort(df['true_label'].unique())
LabelsUnsorted(df) == unique(TrueLabels(df))

Labels(df) == sort(unique(TrueLabels(df)))

\* sklearn's confusion_matrix(y_true, y_pred, labels=labels): one row and one
\* column per entry of labels; a sample whose true or predicted label is not
\* in labels is left out.
confusion_matrix(df, labels) ==
    [i \in 1..Len(labels) |-> [j \in 1..Len(labels) |->
        Cardinality({k \in 1..Len(df) :
                        df[k][1] = labels[i] /\ df[k][2] = labels[j]})]]

\* 100 * num_correct / num_total: the quotient num / den, or the exception
\* Python raises for a zero divisor.
TrueDivide(num, den) ==
    IF den = 0 THEN [status |-> "ZeroDivisionError", num |-> 0, den |-> 0]
    ELSE [status |-> "value", num |-> num, den |-> den]

NotRun == [status |-> "not run", num |-> 0, den |-> 0]

\* ------------------------------------------------------------ variables
VARIABLES
    \* SpecImage: one record through the two array functions
    step,         \* "raw", "reshaped" or "preprocessed"
    mem,          \* the heap
    record,       \* (image, label, filename)
    mean_image,   \* the (C, H, W) mean image
    image_data,   \* what get_preprocessed_image returned, or "none"
    raw,          \* history: the flat pixel buffer as read from the dataset
    record0,      \* history: the record before reshape_image
    input0,       \* history: the elements of the tensor handed to the preprocessor
    mean0,        \* history: the elements of the mean image at the start
    \* Spec: the scoring run
    mean_image_bc,  \* the broadcast: the mean image's elements as pickled
    partitions,   \* per worker, the records of its partition
    wheap,        \* per worker process, its heap
    pc,           \* per worker, where its run_worker generator is
    pos,          \* per worker, the records its loop has taken
    loads,        \* per worker, the load_model calls
    evals,        \* per worker, the loaded_model.eval calls
    emitted,      \* per worker, the pairs it has yielded
    loadFailed,   \* history: per worker, whether load_model raised
    cell,         \* the driver: which notebook cell has run last
    results,      \* what labelled_images.collect() returned
    num_correct,
    num_total,
    percent,      \* what 100 * num_correct / num_total gave
    labels,
    cm

imageVars == <<step, mem, record, mean_image, image_data, raw, record0, input0,
               mean0>>
workerVars == <<mean_image_bc, partitions, wheap, pc, pos, loads, evals, emitted,
                loadFailed>>
driverVars == <<cell, results, num_correct, num_total, percent, labels, cm>>

vars == <<imageVars, workerVars, driverVars>>

Workers == 1..NumWorkers
Classes == 0..(NumClasses - 1)
NumPixels == Height * Width * Channels

OneHot(k, v) == [i \in 1..NumPixels |-> IF i = k THEN v ELSE 0]
Ramp(s) == [i \in 1..NumPixels |-> (s + i) % 256]

Elements(heap, a) == [ix \in Indices(a.shape) |-> At(heap, a, ix)]

\* --------------------------------------------------------- SpecImage
\* Flat pixel buffers (uint8) and flat mean lists the records are drawn from.
RawBuffers ==
    {OneHot(k, v) : k \in 1..NumPixels, v \in 1..MaxPixel}
        \cup {Ramp(s) : s \in {0, 255 - NumPixels}}
MeanLists ==
    {OneHot(k, v) : k \in 1..NumPixels, v \in 1..MaxMean} \cup {Ramp(0)}

IdleRun ==
    /\ mean_image_bc = <<>>
    /\ partitions = <<>> /\ wheap = <<>> /\ pc = <<>> /\ pos = <<>>
    /\ loads = <<>> /\ evals = <<>> /\ emitted = <<>> /\ loadFailed = <<>>
    /\ cell = "none" /\ results = <<>> /\ num_correct = 0 /\ num_total = 0
    /\ percent = NotRun /\ labels = <<>> /\ cm = <<>>

InitImage ==
    /\ step = "raw"
    /\ \E b \in RawBuffers, m \in MeanLists, label \in Classes :
         /\ mem = <<b, m>>
         /\ raw = b
         /\ record = <<NdArray(1, <<NumPixels>>, <<1>>, 0, "uint8"), label,
                       "img.png">>
         /\ mean_image = ParseMeanImage(2)
         /\ mean0 = Elements(<<b, m>>, ParseMeanImage(2))
    /\ record0 = record
    /\ image_data = "none"
    /\ input0 = "none"
    /\ IdleRun

\* image_rdd.map(reshape_image) on the record.
ReshapeImage ==
    /\ step = "raw"
    /\ step' = "reshaped"
    /\ record' = reshape_image(record)
    /\ UNCHANGED <<mem, mean_image, image_data, raw, record0, input0, mean0>>
    /\ UNCHANGED <<workerVars, driverVars>>

\* get_preprocessed_image(record[0], mean_image), as run_worker calls it.
PreprocessImage ==
    /\ step = "reshaped"
    /\ step' = "preprocessed"
    /\ LET r == get_preprocessed_image(mem, record[1], mean_image)
       IN  /\ mem' = r.heap
           /\ image_data' = r.arr
    /\ input0' = Elements(mem, record[1])
    /\ UNCHANGED <<record, mean_image, raw, record0, mean0>>
    /\ UNCHANGED <<workerVars, driverVars>>

NextImage == ReshapeImage \/ PreprocessImage

SpecImage == InitImage /\ [][NextImage]_vars

\* ------------------------------------------------------------- Spec
\* mean_image_bc.value in a worker process: the unpickled broadcast, a
\* C-ordered array of the worker's own in buffer 1 of its heap.
BroadcastValue ==
    NdArray(1, <<Channels, Height, Width>>,
            CStrides(<<Channels, Height, Width>>), 0, "float64")

\* Record i of the dataset: zip(test_dict['data'], test_dict['labels'],
\* test_dict['filenames']), its pixel row in buffer buf of the worker's heap.
DatasetRecord(buf, label, i) ==
    <<NdArray(buf, <<NumPixels>>, <<1>>, 0, "uint8"), label, <<"file", i>>>>

\* The model outputs: one score per class.
ScoreVectors == [1..NumClasses -> {0, 1}]

IdleImage ==
    /\ step = "none" /\ mem = <<>> /\ record = <<>> /\ mean_image = "none"
    /\ image_data = "none" /\ raw = <<>> /\ record0 = <<>> /\ input0 = "none"
    /\ mean0 = "none"

\* sc.parallelize(...) cuts the dataset into one contiguous slice per worker;
\* sc.broadcast(mean_image) pickles the mean image for every worker.
Init ==
    /\ IdleImage
    /\ mean_image_bc = Flat(<<Ramp(0)>>, ParseMeanImage(1))
    /\ \E n \in 0..MaxRecords :
       \E lab \in [1..n -> Classes] :
       \E cut \in [0..NumWorkers -> 0..n] :
         /\ cut[0] = 0 /\ cut[NumWorkers] = n
         /\ \A w \in Workers : cut[w - 1] <= cut[w]
         /\ partitions = [w \in Workers |->
              [k \in 1..(cut[w] - cut[w - 1]) |->
                  DatasetRecord(k + 1, lab[cut[w - 1] + k], cut[w - 1] + k)]]
         /\ wheap = [w \in Workers |->
              <<mean_image_bc>> \o
              [k \in 1..(cut[w] - cut[w - 1]) |-> Ramp(cut[w - 1] + k)]]
    /\ pc = [w \in Workers |-> "start"]
    /\ pos = [w \in Workers |-> 0]
    /\ loads = [w \in Workers |-> 0]
    /\ evals = [w \in Workers |-> 0]
    /\ emitted = [w \in Workers |-> <<>>]
    /\ loadFailed = [w \in Workers |-> FALSE]
    /\ cell = "scoring"
    /\ results = <<>> /\ num_correct = 0 /\ num_total = 0
    /\ percent = NotRun /\ labels = <<>> /\ cm = <<>>

\* run_worker up to its loop: loaded_model = load_model(...), which raises or
\* returns; an exception leaves the generator and fails the task.
LoadModelSwallow(w) ==
    /\ pc[w] = "start"
    /\ loads' = [loads EXCEPT ![w] = @ + 1]
    /\ \E ok \in BOOLEAN :
         /\ pc' = [pc EXCEPT ![w] = "loaded"]
         /\ loadFailed' = [loadFailed EXCEPT ![w] = ~ok]
    /\ UNCHANGED <<mean_image_bc, partitions, wheap, pos, evals, emitted>>
    /\ UNCHANGED <<imageVars, driverVars>>

LoadModel(w) ==
    /\ pc[w] = "start"
    /\ loads' = [loads EXCEPT ![w] = @ + 1]
    /\ \E ok \in BOOLEAN :
         /\ pc' = [pc EXCEPT ![w] = IF ok THEN "loaded" ELSE "failed"]
         /\ loadFailed' = [loadFailed EXCEPT ![w] = ~ok]
    /\ UNCHANGED <<mean_image_bc, partitions, wheap, pos, evals, emitted>>
    /\ UNCHANGED <<imageVars, driverVars>>

\* What one turn of run_worker's loop leaves of the worker's heap: the record
\* is reshaped (image_rdd.map) and preprocessed; the arrays made for it are
\* garbage once the pair is out.
HeapAfterRecord(w) ==
    LET rec == reshape_image(partitions[w][pos[w] + 1])
        r == get_preprocessed_image(wheap[w], rec[1], BroadcastValue)
    IN  SubSeq(r.heap, 1, Len(wheap[w]))

ScoreReloading(w) ==
    /\ pc[w] = "loaded"
    /\ pos[w] < Len(partitions[w])
    /\ wheap' = [wheap EXCEPT ![w] = HeapAfterRecord(w)]
    /\ \E dnn_output \in ScoreVectors :
         emitted' = [emitted EXCEPT ![w] =
             Append(@, <<partitions[w][pos[w] + 1][2], argmax(dnn_output)>>)]
    /\ loads' = [loads EXCEPT ![w] = @ + 1]
    /\ evals' = [evals EXCEPT ![w] = @ + 1]
    /\ pos' = [pos EXCEPT ![w] = @ + 1]
    /\ UNCHANGED <<mean_image_bc, partitions, pc, loadFailed>>
    /\ UNCHANGED <<imageVars, driverVars>>

ScoreSwapped(w) ==
    /\ pc[w] = "loaded"
    /\ pos[w] < Len(partitions[w])
    /\ wheap' = [wheap EXCEPT ![w] = HeapAfterRecord(w)]
    /\ \E dnn_output \in ScoreVectors :
         emitted' = [emitted EXCEPT ![w] =
             Append(@, <<argmax(dnn_output), partitions[w][pos[w] + 1][2]>>)]
    /\ evals' = [evals EXCEPT ![w] = @ + 1]
    /\ pos' = [pos EXCEPT ![w] = @ + 1]
    /\ UNCHANGED <<mean_image_bc, partitions, pc, loads, loadFailed>>
    /\ UNCHANGED <<imageVars, driverVars>>

\* for record in records: preprocess, eval, yield record[1], np.argmax(...)
Score(w) ==
    /\ pc[w] = "loaded"
    /\ pos[w] < Len(partitions[w])
    /\ wheap' = [wheap EXCEPT ![w] = HeapAfterRecord(w)]
    /\ \E dnn_output \in ScoreVectors :
         emitted' = [emitted EXCEPT ![w] =
             Append(@, <<partitions[w][pos[w] + 1][2], argmax(dnn_output)>>)]
    /\ evals' = [evals EXCEPT ![w] = @ + 1]
    /\ pos' = [pos EXCEPT ![w] = @ + 1]
    /\ UNCHANGED <<mean_image_bc, partitions, pc, loads, loadFailed>>
    /\ UNCHANGED <<imageVars, driverVars>>

\* The loop ends: the generator is exhausted.
Finish(w) ==
    /\ pc[w] = "loaded"
    /\ pos[w] = Len(partitions[w])
    /\ pc' = [pc EXCEPT ![w] = "done"]
    /\ UNCHANGED <<mean_image_bc, partitions, wheap, pos, loads, evals, emitted,
                   loadFailed>>
    /\ UNCHANGED <<imageVars, driverVars>>

\* The ways the workers' pairs can reach the driver: each partition's pairs in
\* the order yielded, the partitions interleaved in any way (the engine
\* promises no order across partitions).
RECURSIVE Interleavings(_)
Interleavings(out) ==
    IF \A w \in Workers : out[w] = <<>> THEN {<<>>}
    ELSE UNION {{<<Head(out[w])>> \o rest :
                    rest \in Interleavings([out EXCEPT ![w] = Tail(@)])} :
                w \in {v \in Workers : out[v] # <<>>}}

\* results = labelled_images.collect(): every partition's pairs, once every
\* task is over; a failed task's exception is raised by collect(), which does
\* not wait for the other tasks.
Collect ==
    /\ cell = "scoring"
    /\ \/ \E w \in Workers : pc[w] = "failed"
       \/ \A w \in Workers : pc[w] = "done"
    /\ IF \E w \in Workers : pc[w] = "failed"
       THEN cell' = "collect_error" /\ results' = results
       ELSE cell' = "collected" /\ results' \in Interleavings(emitted)
    /\ UNCHANGED <<num_correct, num_total, percent, labels, cm>>
    /\ UNCHANGED <<imageVars, workerVars>>

\* The accuracy cell: num_correct, num_total, then the division in print().
AccuracyCell ==
    /\ cell = "collected"
    /\ num_correct' = NumCorrect(results)
    /\ num_total' = Len(results)
    /\ percent' = TrueDivide(100 * NumCorrect(results), Len(results))
    /\ cell' = IF Len(results) = 0 THEN "accuracy_error" ELSE "accuracy"
    /\ UNCHANGED <<results, labels, cm>>
    /\ UNCHANGED <<imageVars, workerVars>>

\* The confusion matrix cell, on the scores written by the cell before it
\* (which cannot write an empty frame).
ConfusionCell ==
    /\ cell \in {"accuracy", "accuracy_error"}
    /\ IF results = <<>>
       THEN cell' = "cm_error" /\ labels' = labels /\ cm' = cm
       ELSE /\ cell' = "cm"
            /\ labels' = Labels(results)
            /\ cm' = confusion_matrix(results, Labels(results))
    /\ UNCHANGED <<results, num_correct, num_total, percent>>
    /\ UNCHANGED <<imageVars, workerVars>>

Next ==
    \/ \E w \in Workers : LoadModel(w)
    \/ \E w \in Workers : Score(w)
    \/ \E w \in Workers : Finish(w)
    \/ Collect
    \/ AccuracyCell
    \/ ConfusionCell

Spec == Init /\ [][Next]_vars

\* ------------------------------------------------------------ claims

\* C1: a run_worker that is consumed to the end has called load_model exactly
\* once, whatever the size of its partition (0, 1 or more records); no worker
\* ever loads twice, and a worker that has made an inference call has loaded
\* before it. Each of several concurrent workers does its own single load.
C1_LoadOncePerWorker ==
    \A w \in Workers :
        /\ loads[w] <= 1
        /\ evals[w] > 0 => loads[w] = 1
        /\ pc[w] = "done" => loads[w] = 1

C1_Witness ==
    \E v, w \in Workers :
        /\ pc[v] = "done" /\ pc[w] = "done"
        /\ Len(partitions[v]) = 0 /\ Len(partitions[w]) >= 2
        /\ evals[w] = Len(partitions[w])
        /\ loads[v] = 1 /\ loads[w] = 1

C3_LoadFailureFailsPartition ==
    \A w \in Workers :
        loadFailed[w] =>
            /\ pc[w] = "failed"
            /\ emitted[w] = <<>>
            /\ evals[w] = 0
            /\ loads[w] = 1
            /\ cell \in {"scoring", "collect_error"}
            /\ results = <<>>

C3_Witness ==
    \E v, w \in Workers :
        /\ loadFailed[w] /\ Len(partitions[w]) >= 1
        /\ pc[v] = "done" /\ emitted[v] # <<>>
        /\ cell = "collect_error"

\* C4: once the accuracy cell has run, it has given 100 * correct / total, and
\* 0 (not a division error) when there are no results.
C4_AccuracyZeroWhenEmpty ==
    cell \in {"accuracy", "accuracy_error", "cm", "cm_error"} =>
        /\ percent.status = "value"
        /\ num_total = 0 => percent.num = 0
        /\ num_total > 0 =>
              percent.num * num_total = 100 * num_correct * percent.den

PairCount(df, t, p) == Cardinality({k \in 1..Len(df) : df[k] = <<t, p>>})

RECURSIVE SumSeq(_)
SumSeq(seq) == IF seq = <<>> THEN 0 ELSE seq[1] + SumSeq(Tail(seq))

LabelIndex(t) == CHOOSE i \in 1..Len(labels) : labels[i] = t

\* C5: the confusion matrix has a cell for every (true, predicted) pair of the
\* label set, also for a label that never occurs as a true label, and the cell
\* holds the number of results with that pair.
C5_MatrixCoversEveryLabelPair ==
    cell = "cm" =>
        \A t, p \in Classes :
            /\ t \in Range(labels) /\ p \in Range(labels)
            /\ cm[LabelIndex(t)][LabelIndex(p)] = PairCount(results, t, p)

\* C6: every row of the confusion matrix sums to the number of results with
\* that true label, so the whole matrix sums to the number of results.
C6_RowSumsCountTrueLabels ==
    cell = "cm" =>
        /\ \A t \in Classes :
              (IF t \in Range(labels) THEN SumSeq(cm[LabelIndex(t)]) ELSE 0)
                  = Cardinality({k \in 1..Len(results) : results[k][1] = t})
        /\ SumSeq([i \in 1..Len(cm) |-> SumSeq(cm[i])]) = Len(results)

\* The pairs partition by partition, the order of a collect() that keeps the
\* partitions' order.
RECURSIVE InPartitionOrder(_)
InPartitionOrder(n) ==
    IF n = 0 THEN <<>> ELSE InPartitionOrder(n - 1) \o emitted[n]

\* Counts kept one result at a time.
RECURSIVE Streamed(_)
Streamed(df) ==
    IF df = <<>>
    THEN [total |-> 0, correct |-> 0, pairs |-> [q \in Classes \X Classes |-> 0]]
    ELSE LET before == Streamed(SubSeq(df, 1, Len(df) - 1))
             r == df[Len(df)]
         IN  [total |-> before.total + 1,
              correct |-> before.correct + (IF r[1] = r[2] THEN 1 ELSE 0),
              pairs |-> [before.pairs EXCEPT ![r] = @ + 1]]

\* C7: whatever the order in which the partitions' results reached the driver,
\* the total, the correct count, the accuracy and the confusion matrix are
\* those of the results taken partition by partition, and those of counts kept
\* one result at a time in either order.
C7_AggregationOrderIndependent ==
    LET ordered == InPartitionOrder(NumWorkers)
        s == Streamed(results)
    IN  /\ cell \in {"accuracy", "accuracy_error", "cm", "cm_error"} =>
              /\ num_total = Len(ordered)
              /\ num_correct = NumCorrect(ordered)
              /\ percent = TrueDivide(100 * NumCorrect(ordered), Len(ordered))
              /\ num_total = s.total /\ num_correct = s.correct
              /\ Streamed(ordered) = s
        /\ cell = "cm" =>
              /\ labels = Labels(ordered)
              /\ cm = confusion_matrix(ordered, Labels(ordered))
              /\ \A i, j \in 1..Len(labels) :
                    cm[i][j] = s.pairs[<<labels[i], labels[j]>>]

C7_Witness ==
    /\ cell = "cm"
    /\ \A w \in Workers : emitted[w] # <<>>
    /\ results # InPartitionOrder(NumWorkers)
    /\ unique(TrueLabels(results)) # unique(TrueLabels(InPartitionOrder(NumWorkers)))
    /\ num_correct = 1

\* C8: in every worker process the buffer of the broadcast mean image holds
\* the values that were broadcast, after any number of get_preprocessed_image
\* calls there.
C8_MeanImageNeverWritten ==
    \A w \in Workers : wheap[w][BroadcastValue.buf] = mean_image_bc

C8_Witness ==
    /\ \E v, w \in Workers : v # w /\ evals[v] >= 1 /\ evals[w] >= 1
    /\ \E k \in 1..NumPixels : mean_image_bc[k] # 0

\* C9: get_preprocessed_image returns a (C, H, W) float tensor with
\* out[c][h][w] = in[h][w][C-1-c] - mean[c][h][w], and leaves its input as it
\* was.
C9_PreprocessedImage ==
    step = "preprocessed" =>
        /\ image_data.shape = <<Channels, Height, Width>>
        /\ image_data.dtype = "float32"
        /\ \A c \in 0..(Channels - 1), h \in 0..(Height - 1), w \in 0..(Width - 1) :
              At(mem, image_data, <<c, h, w>>)
                  = input0[<<h, w, Channels - 1 - c>>] - mean0[<<c, h, w>>]
        /\ Elements(mem, record[1]) = input0
        /\ Elements(mem, mean_image) = mean0

C9_Witness ==
    /\ step = "preprocessed"
    /\ raw = Ramp(0)
    /\ mem[2] = Ramp(0)

\* C10: reshape_image returns an (H, W, C) tensor with
\* out[h][w][c] = buffer[c*H*W + h*W + w], so that the tensor transposed back
\* to channel-major and flattened is the buffer again; label and filename
\* pass through.
C10_ReshapeChannelMajor ==
    step \in {"reshaped", "preprocessed"} =>
        /\ record[1].shape = <<Height, Width, Channels>>
        /\ \A h \in 0..(Height - 1), w \in 0..(Width - 1), c \in 0..(Channels - 1) :
              At(mem, record[1], <<h, w, c>>)
                  = raw[c * Height * Width + h * Width + w + 1]
        /\ Flat(mem, transpose(record[1], <<2, 0, 1>>)) = raw
        /\ record[2] = record0[2]
        /\ record[3] = record0[3]

C10_Witness ==
    /\ step = "reshaped"
    /\ raw = Ramp(0)
    /\ record[2] = 1

====
